---------------------------- MODULE Spec2Model ----------------------------
(***************************************************************************)
(* floormedia_core: the launcher of src/src/main.rs.                       *)
(*                                                                         *)
(* main() parses its arguments, checks whether the subserver directories  *)
(* are present, then                                                       *)
(* either pulls (subservers_sync) or clones (subservers_initialize), runs  *)
(* npm install / npm run build where needed, spawns one `npm start` child  *)
(* per subserver and waits for each of them.  With output capture enabled  *)
(* every child has a detached tagging thread that reads the child's stdout *)
(* pipe byte by byte and writes tagged lines to the process's stdout.      *)
(*                                                                         *)
(* Processes of the model: the main thread (pc, idx), one child process    *)
(* per subserver (child, wpos), one tagging thread per captured child      *)
(* (tpc, rpos, line).  The environment of a run (directory contents, the   *)
(* outcome of each external command, the bytes each child writes, its exit *)
(* code) is drawn from bounded sets.                                       *)
(***************************************************************************)
EXTENDS Integers, Sequences, FiniteSets, TLC

(***************************************************************************)
(* Program constants                                                       *)
(***************************************************************************)
SUBSERVER_NAMES == <<"floormedia_frontend", "floormedia_backend">>

\* Indices into SUBSERVER_NAMES (1-based here, 0-based in the source).
Children == 1..Len(SUBSERVER_NAMES)

\* '\n' as u8
NL == 10

\* Index of the backend in SUBSERVER_NAMES (1 in the source, 0-based).
SUBSERVER_BACKEND_I == 2

\* str::len of each name.
NAME_LEN == <<19, 18>>

\* u16::MAX
U16_MAX == 65535

\* The columns Style::println subtracts from the width besides the line:
\* Header, StatusInfo.
HEADER_PAD == 20

STATUS_PAD == 16

(***************************************************************************)
(* Bounds of the model                                                     *)
(***************************************************************************)
\* Total number of bytes the children write to their stdout in one run.
MaxBytes == 3

\* Capacity of the pipe between a child and its tagging thread, in bytes.
PipeCap == 2

\* Number of directory entries of ./sub/ besides the expected ones.
MaxExtra == 1

\* Number of options on the command line (a port option with its value
\* counts once).
MaxOptions == 3

\* Largest terminal width and longest line of a banner printed on its own.
MaxWidth == 40

MaxLineLen == 24

(***************************************************************************)
(* Strings.  A string is a sequence of one-character strings, so that      *)
(* trimming and comparison are computed character by character.            *)
(***************************************************************************)
UP_TO_DATE ==
    <<"A","l","r","e","a","d","y"," ","u","p"," ","t","o"," ","d","a","t","e",".">>

\* char::is_whitespace, restricted to the characters that occur.
IsWhitespace(ch) == ch \in {" ", "\n", "\t", "\r"}

RECURSIVE TrimStart(_)
TrimStart(s) ==
    IF s # <<>> /\ IsWhitespace(Head(s)) THEN TrimStart(Tail(s)) ELSE s

RECURSIVE TrimEnd(_)
TrimEnd(s) ==
    IF s # <<>> /\ IsWhitespace(s[Len(s)])
    THEN TrimEnd(SubSeq(s, 1, Len(s) - 1))
    ELSE s

\* str::trim
Trim(s) == TrimEnd(TrimStart(s))

\* The byte 0xFF stands for any byte sequence that is not valid UTF-8.
IsUtf8(s) == \A i \in 1..Len(s) : s[i] # "\\xFF"

\* The comparison without the trim.
IsUpToDate_NoTrim(out) == out = UP_TO_DATE

\* git_pull's classification of one pull output: None (unchanged) iff the
\* trimmed output is the sentinel.
IsUpToDate(out) == Trim(out) = UP_TO_DATE

(***************************************************************************)
(* Command line.  An argument is a string of characters.                   *)
(***************************************************************************)
INHERIT_STDOUTS ==
    <<"i","n","h","e","r","i","t","_","s","t","d","o","u","t","s">>

OPT_M == <<"-","m">>

BACKEND_PORT == <<"b","a","c","k","e","n","d","_","p","o","r","t">>

OPT_BP == <<"-","b","p">>

DIGITS == <<"0","1","2","3","4","5","6","7","8","9">>

IsDigit(ch) == \E d \in 1..Len(DIGITS) : DIGITS[d] = ch

DigitValue(ch) == (CHOOSE d \in 1..Len(DIGITS) : DIGITS[d] = ch) - 1

\* The digit loop of u16::from_str: Err (here <<>>) on a character that is
\* no digit and on a value above u16::MAX, else Ok(value) (here <<value>>).
RECURSIVE ParseDigits(_, _)
ParseDigits(s, acc) ==
    IF s = <<>> THEN <<acc>>
    ELSE IF ~IsDigit(Head(s)) THEN <<>>
    ELSE LET n == acc * 10 + DigitValue(Head(s))
         IN  IF n > U16_MAX THEN <<>> ELSE ParseDigits(Tail(s), n)

\* v.parse::<u16>().ok(): an optional '+', then at least one digit.  An
\* Option is a sequence of at most one element.
ParseU16(s) ==
    LET digits == IF s # <<>> /\ Head(s) = "+" THEN Tail(s) ELSE s
    IN  IF digits = <<>> THEN <<>> ELSE ParseDigits(digits, 0)

\* Display of a u16: decimal, no leading zero.
RECURSIVE ToDecimal(_)
ToDecimal(n) ==
    IF n < 10 THEN <<DIGITS[n + 1]>>
    ELSE Append(ToDecimal(n \div 10), DIGITS[(n % 10) + 1])

\* The value of `out` before the loop.
DefaultArgs == [distinguish_child_stdouts |-> TRUE, server_alternate_port |-> <<>>]

\* A loop that keeps the first port it was given.
RECURSIVE ParseLoop_FirstPortWins(_, _)
ParseLoop_FirstPortWins(value, out) ==
    IF value = <<>> THEN out
    ELSE LET arg == Head(value)
             rest == Tail(value)
         IN  IF arg \in {INHERIT_STDOUTS, OPT_M}
             THEN ParseLoop_FirstPortWins(
                      rest, [out EXCEPT !.distinguish_child_stdouts = FALSE])
             ELSE IF arg \in {BACKEND_PORT, OPT_BP}
             THEN LET port == IF rest = <<>> THEN <<>> ELSE ParseU16(Head(rest))
                      after == IF rest = <<>> THEN <<>> ELSE Tail(rest)
                  IN  IF port = <<>> \/ out.server_alternate_port # <<>>
                      THEN ParseLoop_FirstPortWins(after, out)
                      ELSE ParseLoop_FirstPortWins(
                               after, [out EXCEPT !.server_alternate_port = port])
             ELSE ParseLoop_FirstPortWins(rest, out)

\* The loop of ParsedArgs::from over the remaining arguments.  The port
\* option takes the next argument as its value, whatever it is; without a
\* u16 there, the option is ignored.
RECURSIVE ParseLoop(_, _)
ParseLoop(value, out) ==
    IF value = <<>> THEN out
    ELSE LET arg == Head(value)
             rest == Tail(value)
         IN  IF arg \in {INHERIT_STDOUTS, OPT_M}
             THEN ParseLoop(rest, [out EXCEPT !.distinguish_child_stdouts = FALSE])
             ELSE IF arg \in {BACKEND_PORT, OPT_BP}
             THEN LET port == IF rest = <<>> THEN <<>> ELSE ParseU16(Head(rest))
                      after == IF rest = <<>> THEN <<>> ELSE Tail(rest)
                  IN  IF port = <<>>
                      THEN ParseLoop(after, out)
                      ELSE ParseLoop(after, [out EXCEPT !.server_alternate_port = port])
             ELSE ParseLoop(rest, out)

\* ParsedArgs::from(env::args()): the first argument is skipped.
ParsedArgsFrom(value) ==
    ParseLoop(IF value = <<>> THEN <<>> ELSE Tail(value), DefaultArgs)

START == <<"s","t","a","r","t">>

\* The port option given to every descriptor.
StartArgs_AnyDescriptor(i, a) ==
    <<START>> \o
    IF a.server_alternate_port # <<>>
    THEN << <<"-","-">>, <<"-","p","=">> \o ToDecimal(a.server_alternate_port[1]) >>
    ELSE <<>>

\* The arguments node_run gives npm for descriptor i: "start", then the
\* port option iff a port is set and i is the backend.
StartArgs(i, a) ==
    <<START>> \o
    IF a.server_alternate_port # <<>>
    THEN IF SUBSERVER_NAMES[i] = SUBSERVER_NAMES[SUBSERVER_BACKEND_I]
         THEN << <<"-","-">>, <<"-","p","=">> \o ToDecimal(a.server_alternate_port[1]) >>
         ELSE <<>>
    ELSE <<>>

(***************************************************************************)
(* Style::println                                                          *)
(***************************************************************************)
Styles == {"Header", "StatusInfo", "SubHeader"}

\* The argument of " ".repeat(..) as an integer: negative where the usize
\* subtraction underflows.  SubHeader pads nothing.
Padding(style, w, line_len) ==
    CASE style = "Header" -> w - line_len - HEADER_PAD
      [] style = "StatusInfo" -> w - line_len - STATUS_PAD
      [] OTHER -> 0

\* What the call does when the subtraction underflows: with overflow
\* checks the subtraction panics; without, it wraps to a count above
\* isize::MAX and repeat panics.
PrintlnOutcome(style, w, line_len, overflow_checks) ==
    IF Padding(style, w, line_len) >= 0 THEN "printed"
    ELSE IF overflow_checks THEN "panic: subtract with overflow"
    ELSE "panic: capacity overflow"

(***************************************************************************)
(* The environment's input sets                                            *)
(***************************************************************************)
\* What `git pull` may print on its stdout.
PullOutputs ==
    { UP_TO_DATE,
      UP_TO_DATE \o <<"\n">>,
      <<" ", "\t">> \o UP_TO_DATE \o <<"\r", "\n">>,
      UP_TO_DATE \o <<"\n", "x">>,
      <<"A","l","r","e","a","d","y"," ","u","p"," ","t","o"," ","d","a","t","e">>,
      <<"U","p","d","a","t","i","n","g"," ","a","1",".",".","d","4","\n">>,
      <<>>,
      <<"\n">>,
      <<"\\xFF">> }

\* Result of running an external command: Ok(status) with status.success(),
\* Ok(status) without, or Err (the command could not be started).
CmdOutcomes == {"success", "failure", "spawn_error"}

\* Names a directory entry of ./sub/ can have: an expected name, another
\* name, a name that is not valid unicode (to_str() is None), or an entry
\* whose read failed (Err).
ExtraEntries == {"other", "<non-unicode>", "<err>"}

ExpectedEntries == {SUBSERVER_NAMES[i] : i \in Children}

\* States of ./sub/: missing (read_dir fails), or a directory with a set of
\* entries.
Missing == [exists |-> FALSE, entries |-> {}]

RootDirs ==
    {Missing} \cup
    { [exists |-> TRUE, entries |-> e \cup x] :
        e \in SUBSET ExpectedEntries,
        x \in {y \in SUBSET ExtraEntries : Cardinality(y) <= MaxExtra} }

\* Bytes a child writes: the newline and one other byte.
Bytes == {NL, 97}

RECURSIVE SeqsOfLen(_, _)
SeqsOfLen(S, n) ==
    IF n = 0 THEN {<<>>}
    ELSE {Append(s, x) : s \in SeqsOfLen(S, n - 1), x \in S}

SeqsUpTo(S, n) == UNION {SeqsOfLen(S, k) : k \in 0..n}

RECURSIVE Concat(_)
Concat(ls) == IF ls = <<>> THEN <<>> ELSE Head(ls) \o Concat(Tail(ls))

ExitCodes == {0, 1}

\* argv[0]
PROGRAM == <<"f","l","o","o","r","m","e","d","i","a","_","c","o","r","e">>

\* Terminal widths: too narrow for any banner, wide enough for some, wide
\* enough for all.
Widths == {30, 50, 80}

NoBanner == [style |-> "none", line_len |-> 0, outcome |-> "none"]

\* What can follow a port option: two ports, a number above u16::MAX, a
\* word that is no number.
PortValues == { <<"8","0">>, <<"4","4","3">>, <<"6","5","5","3","6">>, OPT_M }

\* An argument that is no option.
UNKNOWN == <<"x">>

\* The options of a command line, a port option together with its value.
Options ==
    { <<INHERIT_STDOUTS>>, <<OPT_M>>, <<UNKNOWN>>, <<BACKEND_PORT, <<"4","4","3">>>> }
    \cup { <<OPT_BP, v>> : v \in PortValues }

VARIABLES
    argv,       \* env::args()
    width,      \* terminal::size().0
    banner,     \* a call of Style::println on its own: its input and outcome
    args,       \* ParsedArgs
    root,       \* ./sub/: whether it exists, and its set of entry names
    pc,         \* main thread: where it is
    idx,        \* main thread: index of the running loop (1-based)
    phase,      \* what the presence check selected: "none", "initialize", "sync"
    updated,    \* git_pull's result under construction: Vec of descriptors
    cmdLog,     \* external commands invoked so far, with their outcome
    pullReply,  \* per descriptor: what its `git pull` prints on stdout
    stream,     \* per child: the bytes it writes to stdout before it exits
    exitCode,   \* per child: the status it exits with
    child,      \* per child: "none", "running", "exited"
    wpos,       \* per child: number of bytes of stream written so far
    childArgv,  \* per child: the arguments npm was started with
    tpc,        \* per tagging thread: where it is ("none": not spawned)
    rpos,       \* per tagging thread: number of bytes read from the pipe
    line,       \* per tagging thread: the Vec<u8> line buffer
    readErr,    \* per tagging thread: its read of the pipe returned Err
    sink,       \* stdout, per writer: the chunks that writer appended, in order
    sinkLast    \* stdout: the writer of the chunk appended last

vars == <<argv, width, banner, args, root, pc, idx, phase, updated, cmdLog,
          pullReply, stream, exitCode, child, wpos, childArgv, tpc, rpos,
          line, readErr, sink, sinkLast>>

setupVars == <<root, phase, updated, cmdLog>>
childVars == <<child, wpos, childArgv>>
taggerVars == <<tpc, rpos, line, readErr, sink, sinkLast>>
inputVars == <<argv, width, pullReply, stream, exitCode>>
envVars == <<args, inputVars, banner>>


(***************************************************************************)
(* Pure helpers of the main thread                                         *)
(***************************************************************************)
\* subservers_present: the flag array after the loop over the entries.  An
\* entry sets flag i iff its read succeeded, its name is unicode and equals
\* SUBSERVER_NAMES[i]; the special entries of ExtraEntries equal no name.
subserver_is_ok(entries) ==
    [i \in Children |-> \E e \in entries : e = SUBSERVER_NAMES[i]]

\* any(|v| v) in place of all(|v| v).
subservers_present_Any(dir) ==
    dir.exists /\ \E i \in Children : subserver_is_ok(dir.entries)[i]

\* fs::read_dir(SUBSERVER_DIR).is_ok_and(|entries| ... all(|v| v))
subservers_present(dir) ==
    dir.exists /\ \A i \in Children : subserver_is_ok(dir.entries)[i]

\* Path::canonicalize().unwrap() of a subserver's directory: panics unless
\* the path exists.
CwdResolves(i) == root.exists /\ SUBSERVER_NAMES[i] \in root.entries

\* A call site that does not look at the status.
CommandFails_Ignored(outcome) == FALSE

\* `.status().unwrap().success()` negated, or the unwrap's own panic: the
\* call site panics unless the command ran and returned success.
CommandFails(outcome) == outcome # "success"

\* Only the descriptors a pull reported, in both phases.
BuildList_UpdatedOnly == updated

\* The descriptors node_build is called for: every name in
\* subservers_initialize, git_pull's result in subservers_sync.
BuildList ==
    IF phase = "initialize" THEN [i \in Children |-> i] ELSE updated

Logged(cmd, i, outcome) ==
    Append(cmdLog, [cmd |-> cmd, name |-> i, outcome |-> outcome])

\* A panic on the main thread ends the process.
Abort == pc' = "aborted"

\* Style::println of a line of line_len bytes panics on this terminal.
PrintlnPanics(style, line_len) == Padding(style, width, line_len) < 0

(***************************************************************************)
(* Main thread: arguments                                                  *)
(***************************************************************************)
\* main, line 21.
ParseArgs ==
    /\ pc = "args"
    /\ args' = ParsedArgsFrom(argv)
    /\ pc' = "present"
    /\ UNCHANGED <<idx, setupVars, inputVars, banner, childVars, taggerVars>>

\* One call of Style::println, for any style and line length.
StylePrintln ==
    /\ banner.style = "none"
    /\ \E style \in Styles, line_len \in 0..MaxLineLen, overflow_checks \in BOOLEAN :
         /\ banner' = [style |-> style, line_len |-> line_len,
                       outcome |-> PrintlnOutcome(style, width, line_len, overflow_checks)]
         /\ IF banner'.outcome = "printed" THEN UNCHANGED pc ELSE Abort
    /\ UNCHANGED <<idx, setupVars, args, inputVars, childVars, taggerVars>>

(***************************************************************************)
(* Main thread: presence check, initialize, sync                           *)
(***************************************************************************)
\* main, lines 23-27.
SubserversPresent ==
    /\ pc = "present"
    /\ IF subservers_present(root)
       THEN pc' = "sync" /\ phase' = "sync"
       ELSE pc' = "init" /\ phase' = "initialize"
    /\ idx' = 1
    /\ UNCHANGED <<root, updated, cmdLog>>
    /\ UNCHANGED <<envVars, childVars, taggerVars>>

\* subservers_initialize up to the call of git_clone: create ./sub/ if it
\* cannot be read.
SubserversInitialize ==
    /\ pc = "init"
    /\ IF PrintlnPanics("Header", 20)        \* "initializing servers"
       THEN Abort /\ UNCHANGED <<root, idx>>
       ELSE /\ root' = IF root.exists THEN root
                       ELSE [exists |-> TRUE, entries |-> {}]
            /\ pc' = "clone"
            /\ idx' = 1
    /\ UNCHANGED <<phase, updated, cmdLog>>
    /\ UNCHANGED <<envVars, childVars, taggerVars>>

\* One iteration of git_clone's loop.  A successful clone creates the
\* subserver's directory.
GitClone ==
    /\ pc = "clone"
    /\ IF PrintlnPanics("StatusInfo", NAME_LEN[idx] + 11)    \* "[name] download"
       THEN Abort /\ UNCHANGED <<root, idx, cmdLog>>
       ELSE \E outcome \in CmdOutcomes :
         /\ cmdLog' = Logged("clone", idx, outcome)
         /\ IF CommandFails(outcome)
            THEN Abort /\ UNCHANGED <<root, idx>>
            ELSE /\ root' = [root EXCEPT !.entries = @ \cup {SUBSERVER_NAMES[idx]}]
                 /\ IF idx < Len(SUBSERVER_NAMES)
                    THEN pc' = "clone" /\ idx' = idx + 1
                    ELSE pc' = "install" /\ idx' = 1
    /\ UNCHANGED <<phase, updated>>
    /\ UNCHANGED <<envVars, childVars, taggerVars>>

\* An iterator that ends after its first item.
MorePulls_StopEarly(i) == FALSE

\* git_pull's iterator over SUBSERVER_NAMES has a name left after the i-th.
MorePulls(i) == i < Len(SUBSERVER_NAMES)

\* subservers_sync up to the call of git_pull: the banner.
SubserversSync ==
    /\ pc = "sync"
    /\ IF PrintlnPanics("Header", 16)        \* "updating servers"
       THEN Abort
       ELSE pc' = "pull"
    /\ UNCHANGED <<idx, setupVars>>
    /\ UNCHANGED <<envVars, childVars, taggerVars>>

\* One iteration of git_pull's filter_map closure.  collect() runs the
\* closure for every name before subservers_sync's loop starts.
GitPull ==
    /\ pc = "pull"
    /\ IF \/ PrintlnPanics("StatusInfo", NAME_LEN[idx] + 19) \* "[name] download updates"
          \/ ~CwdResolves(idx)
       THEN Abort /\ UNCHANGED <<idx, updated, cmdLog>>
       ELSE \E outcome \in CmdOutcomes :
              /\ cmdLog' = Logged("pull", idx, outcome)
              /\ IF CommandFails(outcome) \/ ~IsUtf8(pullReply[idx])
                 THEN Abort /\ UNCHANGED <<idx, updated>>
                 ELSE /\ updated' = IF IsUpToDate(pullReply[idx])
                                    THEN updated
                                    ELSE Append(updated, idx)
                      /\ IF MorePulls(idx)
                         THEN pc' = "pull" /\ idx' = idx + 1
                         ELSE pc' = "install" /\ idx' = 1
    /\ UNCHANGED <<root, phase>>
    /\ UNCHANGED <<envVars, childVars, taggerVars>>

\* The loops of subservers_initialize and subservers_sync over BuildList,
\* when no descriptor is left: subservers_run is called next.
BuildsDone ==
    /\ pc = "install"
    /\ idx > Len(BuildList)
    /\ pc' = "run"
    /\ idx' = 1
    /\ UNCHANGED setupVars
    /\ UNCHANGED <<envVars, childVars, taggerVars>>

\* node_build, first command: npm install.
NodeBuildInstall ==
    /\ pc = "install"
    /\ idx <= Len(BuildList)
    /\ IF \/ PrintlnPanics("StatusInfo", NAME_LEN[BuildList[idx]] + 22)
                                              \* "[name] update dependencies"
          \/ ~CwdResolves(BuildList[idx])
       THEN Abort /\ UNCHANGED cmdLog
       ELSE \E outcome \in CmdOutcomes :
              /\ cmdLog' = Logged("install", BuildList[idx], outcome)
              /\ IF CommandFails(outcome) THEN Abort ELSE pc' = "build"
    /\ UNCHANGED <<idx, root, phase, updated>>
    /\ UNCHANGED <<envVars, childVars, taggerVars>>

\* node_build, second command: npm run build.
NodeBuildBuild ==
    /\ pc = "build"
    /\ IF \/ PrintlnPanics("StatusInfo", NAME_LEN[BuildList[idx]] + 8) \* "[name] build"
          \/ ~CwdResolves(BuildList[idx])
       THEN Abort /\ UNCHANGED <<cmdLog, idx>>
       ELSE \E outcome \in CmdOutcomes :
              /\ cmdLog' = Logged("build", BuildList[idx], outcome)
              /\ IF CommandFails(outcome)
                 THEN Abort /\ UNCHANGED idx
                 ELSE pc' = "install" /\ idx' = idx + 1
    /\ UNCHANGED <<root, phase, updated>>
    /\ UNCHANGED <<envVars, childVars, taggerVars>>

(***************************************************************************)
(* Main thread: launch                                                     *)
(***************************************************************************)
\* The process is alive: main has neither returned nor panicked.  When it
\* ends, its threads end with it.
Running == pc \notin {"exited", "aborted"}

\* subservers_run up to the first call of node_run: the two banners.
SubserversRun ==
    /\ pc = "run"
    /\ IF PrintlnPanics("Header", 17)        \* "launching servers"
       THEN Abort /\ UNCHANGED idx
       ELSE pc' = "spawn" /\ idx' = 1
    /\ UNCHANGED setupVars
    /\ UNCHANGED <<envVars, childVars, taggerVars>>

\* A thread that goes straight to its read loop.
TaggerEntry_NoStartMarker == "read"

\* Where a tagging thread starts: at the execute! of the start marker.
TaggerEntry == "start1"

\* A stdout that is piped whatever the arguments say.
StdoutPiped_Always(a) == TRUE

\* The child's stdout is Stdio::piped() rather than Stdio::inherit(), and
\* so child.stdout is Some.
StdoutPiped(a) == a.distinguish_child_stdouts

\* A wait on each child right after its spawn.
AfterSpawn_WaitEach(i) == [pc |-> "wait", idx |-> i]

\* Where main goes after node_run returned for the i-th name: the array
\* map calls node_run for the next name; after the last, the wait loop
\* starts.
AfterSpawn(i) ==
    IF i < Len(SUBSERVER_NAMES)
    THEN [pc |-> "spawn", idx |-> i + 1]
    ELSE [pc |-> "wait", idx |-> 1]

\* node_run: spawn `npm start`; with a piped stdout, spawn the detached
\* tagging thread; sleep; return the Child.  Called once per name by the
\* array map of subservers_run, before any wait.
NodeRun ==
    /\ pc = "spawn"
    /\ IF ~CwdResolves(idx)
       THEN Abort /\ UNCHANGED <<idx, cmdLog, child, childArgv, tpc>>
       ELSE \E outcome \in {"success", "spawn_error"} :
              /\ cmdLog' = Logged("start", idx, outcome)
              /\ IF CommandFails(outcome)
                 THEN Abort /\ UNCHANGED <<idx, child, childArgv, tpc>>
                 ELSE /\ child' = [child EXCEPT ![idx] = "running"]
                      /\ childArgv' = [childArgv EXCEPT ![idx] = StartArgs(idx, args)]
                      /\ tpc' = [tpc EXCEPT ![idx] =
                                   IF StdoutPiped(args)
                                   THEN TaggerEntry ELSE "none"]
                      /\ pc' = AfterSpawn(idx).pc
                      /\ idx' = AfterSpawn(idx).idx
    /\ UNCHANGED <<root, phase, updated, wpos>>
    /\ UNCHANGED <<envVars, rpos, line, readErr, sink, sinkLast>>

\* A wait that does not block (try_wait).
WaitReturns_NoBlock(c) == TRUE

\* Child::wait returns once the child has terminated, whatever its status.
WaitReturns(c) == child[c] = "exited"

\* An unwrap that panics on a status that is not success.
WaitPanics_OnFailure(status) == status # 0

\* child.wait().unwrap(): wait returns Ok(status) for a child that
\* terminated, and the status is dropped.
WaitPanics(status) == FALSE

\* One iteration of subservers_run's loop over child_processes.
ChildWait ==
    /\ pc = "wait"
    /\ idx <= Len(SUBSERVER_NAMES)
    /\ WaitReturns(idx)
    /\ IF WaitPanics(exitCode[idx])
       THEN Abort /\ UNCHANGED idx
       ELSE idx' = idx + 1 /\ UNCHANGED pc
    /\ UNCHANGED setupVars
    /\ UNCHANGED <<envVars, childVars, taggerVars>>

\* The loop is over: subservers_run and main return, the process exits.
MainReturn ==
    /\ pc = "wait"
    /\ idx > Len(SUBSERVER_NAMES)
    /\ pc' = "exited"
    /\ UNCHANGED <<idx, setupVars>>
    /\ UNCHANGED <<envVars, childVars, taggerVars>>

(***************************************************************************)
(* Child processes                                                         *)
(***************************************************************************)
\* A read end that stays open after the loop.
PipeBroken_Never(c) == FALSE

\* The read end of the child's pipe is gone: the tagging thread has left
\* its loop and dropped child_stdout.
PipeBroken(c) == tpc[c] \in {"end1", "end2", "done"}

\* The child writes its next byte.  With a piped stdout the write blocks
\* while the pipe is full.
ChildWrite(c) ==
    /\ Running
    /\ child[c] = "running"
    /\ wpos[c] < Len(stream[c])
    /\ StdoutPiped(args) =>
         /\ ~PipeBroken(c)
         /\ wpos[c] - rpos[c] < PipeCap
    /\ wpos' = [wpos EXCEPT ![c] = @ + 1]
    /\ UNCHANGED <<pc, idx, setupVars, envVars, child, childArgv, taggerVars>>

\* The child terminates: after its last byte, or when a write finds the
\* pipe broken.
ChildExit(c) ==
    /\ Running
    /\ child[c] = "running"
    /\ wpos[c] = Len(stream[c]) \/ PipeBroken(c)
    /\ child' = [child EXCEPT ![c] = "exited"]
    /\ UNCHANGED <<pc, idx, setupVars, envVars, wpos, childArgv, taggerVars>>

(***************************************************************************)
(* Tagging threads (the closure of node_run, lines 199-256)                *)
(*                                                                         *)
(* stdout() is a handle on the process-wide buffered stdout; each          *)
(* write_all on it takes the lock for that call alone.  execute! and       *)
(* queue! issue one write per command, so a marker is two writes (the      *)
(* styled text, then "\r\n") and a tagged line four (header[0], header[1], *)
(* " ", the line).  Bytes reach the terminal in the order of the writes.   *)
(* The shared stdout is kept as the subsequence each thread wrote (sink)   *)
(* and the writer of its last chunk (sinkLast); the main thread is         *)
(* writer 0.                                                               *)
(***************************************************************************)
Chunk(c, kind, bytes) ==
    [kind |-> kind, name |-> SUBSERVER_NAMES[c], bytes |-> bytes]

\* One write_all on stdout() by thread c.
SinkWrite(c, kind, bytes) ==
    /\ sink' = [sink EXCEPT ![c] = Append(@, Chunk(c, kind, bytes))]
    /\ sinkLast' = c

\* A comparison with '\r' instead of '\n'.
IsLineEnd_CarriageReturn(b) == b = 13

\* b == '\n' as u8
IsLineEnd(b) == b = NL

\* The buffer left as it is after the write.
LineAfterWrite_Kept(l) == l

\* line.clear()
LineAfterWrite(l) == <<>>

\* execute!(start marker), first command: the styled marker text.
TagStartText(c) ==
    /\ Running
    /\ tpc[c] = "start1"
    /\ SinkWrite(c, "start", <<>>)
    /\ tpc' = [tpc EXCEPT ![c] = "start2"]
    /\ UNCHANGED <<pc, idx, setupVars, envVars, childVars, rpos, line, readErr>>

\* execute!(start marker), second command: Print("\r\n"), then the flush.
TagStartCrlf(c) ==
    /\ Running
    /\ tpc[c] = "start2"
    /\ SinkWrite(c, "crlf", <<>>)
    /\ tpc' = [tpc EXCEPT ![c] = "read"]
    /\ UNCHANGED <<pc, idx, setupVars, envVars, childVars, rpos, line, readErr>>

\* An error arm that goes on with the next byte.
AfterReadError_Continue == "read"

\* The Err arm of the loop: dbg!(err); break.  The thread goes on to the
\* end marker.
AfterReadError == "end1"

\* One step of `for byte in child_stdout.bytes()`: a byte of the pipe is
\* pushed on the line; the end of file (the pipe is empty and the child has
\* terminated) or a read error leaves the loop.
TagRead(c) ==
    /\ Running
    /\ tpc[c] = "read"
    /\ \/ /\ rpos[c] < wpos[c]
          /\ rpos' = [rpos EXCEPT ![c] = @ + 1]
          /\ line' = [line EXCEPT ![c] = Append(@, stream[c][rpos[c] + 1])]
          /\ tpc' = [tpc EXCEPT ![c] =
                       IF IsLineEnd(stream[c][rpos[c] + 1]) THEN "tag1" ELSE "read"]
          /\ UNCHANGED readErr
       \/ /\ rpos[c] = wpos[c]
          /\ child[c] = "exited"
          /\ tpc' = [tpc EXCEPT ![c] = "end1"]
          /\ UNCHANGED <<rpos, line, readErr>>
       \/ /\ readErr' = [readErr EXCEPT ![c] = TRUE]
          /\ tpc' = [tpc EXCEPT ![c] = AfterReadError]
          /\ UNCHANGED <<rpos, line>>
    /\ UNCHANGED <<pc, idx, setupVars, envVars, childVars, sink, sinkLast>>

\* queue!, first command: PrintStyledContent(header[0]), the padded name.
TagQueueName(c) ==
    /\ Running
    /\ tpc[c] = "tag1"
    /\ SinkWrite(c, "tag", <<>>)
    /\ tpc' = [tpc EXCEPT ![c] = "tag2"]
    /\ UNCHANGED <<pc, idx, setupVars, envVars, childVars, rpos, line, readErr>>

\* queue!, second command: PrintStyledContent(header[1]), the separator.
TagQueueSeparator(c) ==
    /\ Running
    /\ tpc[c] = "tag2"
    /\ SinkWrite(c, "sep", <<>>)
    /\ tpc' = [tpc EXCEPT ![c] = "tag3"]
    /\ UNCHANGED <<pc, idx, setupVars, envVars, childVars, rpos, line, readErr>>

\* queue!, third command: Print(" ").
TagQueueSpace(c) ==
    /\ Running
    /\ tpc[c] = "tag3"
    /\ SinkWrite(c, "space", <<>>)
    /\ tpc' = [tpc EXCEPT ![c] = "tag4"]
    /\ UNCHANGED <<pc, idx, setupVars, envVars, childVars, rpos, line, readErr>>

\* stdout.write_all(&line); line.clear(); stdout.flush().
TagWriteLine(c) ==
    /\ Running
    /\ tpc[c] = "tag4"
    /\ SinkWrite(c, "line", line[c])
    /\ line' = [line EXCEPT ![c] = LineAfterWrite(@)]
    /\ tpc' = [tpc EXCEPT ![c] = "read"]
    /\ UNCHANGED <<pc, idx, setupVars, envVars, childVars, rpos, readErr>>

\* execute!(end marker), first command: the styled marker text.
TagEndText(c) ==
    /\ Running
    /\ tpc[c] = "end1"
    /\ SinkWrite(c, "end", <<>>)
    /\ tpc' = [tpc EXCEPT ![c] = "end2"]
    /\ UNCHANGED <<pc, idx, setupVars, envVars, childVars, rpos, line, readErr>>

\* execute!(end marker), second command: Print("\r\n"), then the flush; the
\* closure returns.
TagEndCrlf(c) ==
    /\ Running
    /\ tpc[c] = "end2"
    /\ SinkWrite(c, "crlf", <<>>)
    /\ tpc' = [tpc EXCEPT ![c] = "done"]
    /\ UNCHANGED <<pc, idx, setupVars, envVars, childVars, rpos, line, readErr>>

(***************************************************************************)
(* Specifications                                                          *)
(***************************************************************************)
Main ==
    \/ ParseArgs
    \/ SubserversPresent
    \/ SubserversInitialize
    \/ GitClone
    \/ SubserversSync
    \/ GitPull
    \/ BuildsDone
    \/ NodeBuildInstall
    \/ NodeBuildBuild
    \/ SubserversRun
    \/ NodeRun
    \/ ChildWait
    \/ MainReturn

Tagger(c) ==
    \/ TagStartText(c)
    \/ TagStartCrlf(c)
    \/ TagRead(c)
    \/ TagQueueName(c)
    \/ TagQueueSeparator(c)
    \/ TagQueueSpace(c)
    \/ TagWriteLine(c)
    \/ TagEndText(c)
    \/ TagEndCrlf(c)

\* The state in which main starts, given the environment of the run.
Start ==
    /\ pc = "args"
    /\ args = DefaultArgs
    /\ banner = NoBanner
    /\ childArgv = [c \in Children |-> <<>>]
    /\ idx = 1
    /\ phase = "none"
    /\ updated = <<>>
    /\ cmdLog = <<>>
    /\ child = [c \in Children |-> "none"]
    /\ wpos = [c \in Children |-> 0]
    /\ tpc = [c \in Children |-> "none"]
    /\ rpos = [c \in Children |-> 0]
    /\ line = [c \in Children |-> <<>>]
    /\ readErr = [c \in Children |-> FALSE]
    /\ sink = [c \in Children |-> <<>>]
    /\ sinkLast = 0

AllPresent == [exists |-> TRUE, entries |-> ExpectedEntries]

Silent == [c \in Children |-> <<>>]

\* The setup phases under every environment: any directory, any pull
\* output, any command outcome.  The children inherit stdout and print
\* nothing, so no tagging thread exists.
InitSetup ==
    /\ Start
    /\ argv = <<PROGRAM, OPT_M>>
    /\ width \in Widths
    /\ root \in RootDirs
    /\ pullReply \in [Children -> PullOutputs]
    /\ stream = Silent
    /\ exitCode \in [Children -> ExitCodes]

NextSetup == Main \/ \E c \in Children : ChildExit(c)

SpecSetup == InitSetup /\ [][NextSetup]_vars

\* The launch phase under every child behaviour within the bounds.  The
\* launch reads nothing the setup phases leave behind except the subserver
\* directories, so the initialize path is taken with inherited stdout and
\* the sync path with both capture modes.
InitLaunch ==
    /\ Start
    /\ argv \in {<<PROGRAM>>, <<PROGRAM, OPT_M>>}
    /\ width \in Widths
    /\ root \in IF ParsedArgsFrom(argv).distinguish_child_stdouts
                THEN {AllPresent} ELSE {Missing, AllPresent}
    /\ pullReply = [c \in Children |-> UP_TO_DATE \o <<"\n">>]
    /\ stream \in {s \in [Children -> SeqsUpTo(Bytes, MaxBytes)] :
                     Len(s[1]) + Len(s[2]) <= MaxBytes}
    /\ exitCode = [c \in Children |-> 0]

Next ==
    \/ Main
    \/ \E c \in Children : ChildWrite(c) \/ ChildExit(c) \/ Tagger(c)

SpecLaunch == InitLaunch /\ [][Next]_vars

\* What a child writes in the runs checked for termination: nothing, an
\* empty line, or a line that does not fit the pipe.
LongLine == [i \in 1..(PipeCap + 1) |-> IF i = PipeCap + 1 THEN NL ELSE 97]

LiveStreams == {<<>>, <<NL>>, LongLine}

\* The launch with capture on, under fair scheduling: main, every child
\* and every tagging thread take a step they can take.  A read error may
\* happen, but no fairness asks for one.
InitLive ==
    /\ Start
    /\ argv = <<PROGRAM>>
    /\ width = 80
    /\ root \in {Missing, AllPresent}
    /\ pullReply = [c \in Children |-> UP_TO_DATE \o <<"\n">>]
    /\ stream \in [Children -> LiveStreams]
    /\ exitCode = [c \in Children |-> 0]

TaggerStep(c) == Tagger(c) /\ readErr' = readErr

SpecLive ==
    /\ InitLive
    /\ [][Next]_vars
    /\ WF_vars(Main)
    /\ \A c \in Children :
          /\ WF_vars(ChildWrite(c))
          /\ WF_vars(ChildExit(c))
          /\ WF_vars(TaggerStep(c))

\* A complete run for every command line within the bounds, in a benign
\* environment: a wide terminal, subservers absent or present and up to
\* date, silent children.  Tagging threads are not scheduled.
InitArgs ==
    /\ Start
    /\ argv \in {<<PROGRAM>> \o Concat(opts) : opts \in SeqsUpTo(Options, MaxOptions)}
    /\ width = 80
    /\ root \in {Missing, AllPresent}
    /\ pullReply = [c \in Children |-> UP_TO_DATE \o <<"\n">>]
    /\ stream = Silent
    /\ exitCode = [c \in Children |-> 0]

SpecArgs == InitArgs /\ [][NextSetup]_vars

\* Style::println on its own, for every terminal width, style and line
\* length within the bounds.
InitBanner ==
    /\ Start
    /\ argv = <<PROGRAM>>
    /\ width \in 0..MaxWidth
    /\ root = AllPresent
    /\ pullReply = [c \in Children |-> UP_TO_DATE \o <<"\n">>]
    /\ stream = Silent
    /\ exitCode = [c \in Children |-> 0]

SpecBanner == InitBanner /\ [][StylePrintln]_vars

(***************************************************************************)
(* What the claims speak of                                                *)
(***************************************************************************)
capture == args.distinguish_child_stdouts

IsPrefix(a, b) ==
    /\ Len(a) <= Len(b)
    /\ \A i \in 1..Len(a) : a[i] = b[i]

\* The kinds of the chunks thread c wrote, in order.
Kinds(c) == [i \in 1..Len(sink[c]) |-> sink[c][i].kind]

HasKind(c, k) == \E i \in 1..Len(sink[c]) : sink[c][i].kind = k

\* The raw lines thread c wrote: its tagged lines without tag, separator
\* and space.
LinePayloads(c) ==
    LET ls == SelectSeq(sink[c], LAMBDA ch : ch.kind = "line")
    IN  [i \in 1..Len(ls) |-> ls[i].bytes]

\* The complete newline-terminated lines of a byte stream, in order.
RECURSIVE LinesFrom(_, _)
LinesFrom(s, cur) ==
    IF s = <<>> THEN <<>>
    ELSE IF Head(s) = NL
         THEN <<Append(cur, NL)>> \o LinesFrom(Tail(s), <<>>)
         ELSE LinesFrom(Tail(s), Append(cur, Head(s)))

CompleteLines(s) == LinesFrom(s, <<>>)

NewlineCount(s) == Cardinality({i \in 1..Len(s) : s[i] = NL})

\* Position of the last newline of s, 0 if there is none.
LastNewline(s) ==
    IF NewlineCount(s) = 0 THEN 0
    ELSE CHOOSE i \in 1..Len(s) :
           s[i] = NL /\ \A j \in (i + 1)..Len(s) : s[j] # NL

\* A chunk of one of these kinds is not the first write of its marker or
\* tagged line.
ContinuationKinds == {"crlf", "sep", "space", "line"}

LineKinds == {"tag", "sep", "space", "line"}

SetupCommands == {"clone", "pull", "install", "build"}

\* Thread c has left its read loop at the end of file.
AtEndOfStream(c) == tpc[c] \in {"end1", "end2", "done"} /\ ~readErr[c]

(***************************************************************************)
(* C1: with capture enabled, every marker and every tagged line is one     *)
(* contiguous run of the shared stdout: when a thread writes a chunk that  *)
(* continues its marker or tagged line, the chunk before it in stdout is   *)
(* that thread's own.                                                      *)
(***************************************************************************)
C1_LogicalWritesContiguous ==
    [][\A c \in Children :
         ( /\ Len(sink'[c]) = Len(sink[c]) + 1
           /\ sink'[c][Len(sink'[c])].kind \in ContinuationKinds )
         => sinkLast = c]_vars

(***************************************************************************)
(* C2: with capture enabled, when the program has exited after waiting on  *)
(* all children, every complete line a child wrote to its stdout is in     *)
(* stdout (stated for the children whose pipe had no read error).          *)
(***************************************************************************)
C2_NoLineLostAtExit ==
    (pc = "exited" /\ capture) =>
        \A c \in Children :
            ~readErr[c] =>
                LinePayloads(c) = CompleteLines(SubSeq(stream[c], 1, wpos[c]))

(***************************************************************************)
(* C3: the lines a thread has written are, in order and byte for byte, a   *)
(* prefix of the complete lines its child produces.                        *)
(***************************************************************************)
C3_LinesArePrefixOfProduced ==
    \A c \in Children : IsPrefix(LinePayloads(c), CompleteLines(stream[c]))

C3_Witness ==
    \E c \in Children :
        /\ Len(LinePayloads(c)) >= 2
        /\ LinePayloads(c)[1] # LinePayloads(c)[2]

(***************************************************************************)
(* C4: a thread that has read its stream of k complete lines and a         *)
(* trailing fragment to the end of file has written exactly k lines, each  *)
(* ending at a newline and holding no other newline, which together are    *)
(* the stream up to its last newline: the fragment is not written.         *)
(***************************************************************************)
C4_FramerYieldsExactlyCompleteLines ==
    \A c \in Children :
        AtEndOfStream(c) =>
            LET ls == LinePayloads(c) IN
            /\ Len(ls) = NewlineCount(stream[c])
            /\ \A i \in 1..Len(ls) :
                 /\ ls[i] # <<>>
                 /\ ls[i][Len(ls[i])] = NL
                 /\ \A j \in 1..(Len(ls[i]) - 1) : ls[i][j] # NL
            /\ Concat(ls) = SubSeq(stream[c], 1, LastNewline(stream[c]))
            /\ line[c] = SubSeq(stream[c], LastNewline(stream[c]) + 1, Len(stream[c]))

C4_Witness ==
    \E c \in Children :
        /\ AtEndOfStream(c) /\ tpc[c] = "done"
        /\ Len(LinePayloads(c)) = 2
        /\ stream[c][Len(stream[c])] # NL

(***************************************************************************)
(* C5: main returns only after every child has terminated, and it waits on *)
(* the children in descriptor order: while it waits on child idx, every    *)
(* earlier child has terminated, whatever its exit code.                   *)
(***************************************************************************)
C5_ExitOnlyAfterAllChildren ==
    /\ pc = "exited" => \A c \in Children : child[c] = "exited"
    /\ pc = "wait" => \A c \in Children : c < idx => child[c] = "exited"

C5_Witness ==
    /\ pc = "exited"
    /\ exitCode[1] # 0
    /\ exitCode[2] = 0

(***************************************************************************)
(* C6: in what a thread has written, the start marker comes first and      *)
(* before every piece of a tagged line, no piece of a tagged line follows  *)
(* the end marker, and each marker occurs at most once.                    *)
(***************************************************************************)
C6_MarkersBracketLines ==
    \A c \in Children :
        LET k == Kinds(c) IN
        /\ Len(k) >= 1 => k[1] = "start"
        /\ Len(k) >= 2 => k[2] = "crlf"
        /\ \A i \in 1..Len(k) : k[i] \in LineKinds => i > 2
        /\ \A i, j \in 1..Len(k) : (k[i] = "end" /\ k[j] \in LineKinds) => j < i
        /\ Cardinality({i \in 1..Len(k) : k[i] = "start"}) <= 1
        /\ Cardinality({i \in 1..Len(k) : k[i] = "end"}) <= 1

C6_Witness ==
    \E c \in Children :
        /\ HasKind(c, "start")
        /\ Len(LinePayloads(c)) >= 2
        /\ HasKind(c, "end")

(***************************************************************************)
(* C7: with capture enabled, when the program has exited, the end marker   *)
(* of every child (whose stream has ended, since it has terminated) is in  *)
(* stdout.                                                                 *)
(***************************************************************************)
C7_EndMarkerBeforeExit ==
    (pc = "exited" /\ capture) =>
        \A c \in Children : HasKind(c, "end")

(***************************************************************************)
(* C8: right after the presence check, Sync is selected iff ./sub/ can be  *)
(* read and holds an entry named after every subserver, Initialize iff     *)
(* some expected name is absent (or ./sub/ is missing); the other entries  *)
(* have no say.                                                            *)
(***************************************************************************)
AllExpectedPresent == root.exists /\ ExpectedEntries \subseteq root.entries

C8_PresenceCheckSelectsPhase ==
    pc \in {"sync", "init"} =>
        /\ phase = "sync" <=> AllExpectedPresent
        /\ phase = "initialize" <=> ~AllExpectedPresent
        /\ pc = "sync" <=> phase = "sync"

C8_Witness ==
    /\ pc = "init"
    /\ root.exists
    /\ root.entries = {SUBSERVER_NAMES[1], "other"}

(***************************************************************************)
(* C9: in the Sync phase a descriptor whose pull succeeded is classified   *)
(* unchanged iff its pull output is the sentinel surrounded by whitespace  *)
(* only; install and build run for updated descriptors only, once each     *)
(* for every updated descriptor by the time of the launch; when all are    *)
(* unchanged the pulls are the only commands before the launch.            *)
(***************************************************************************)
\* out is UP_TO_DATE with whitespace around it, and nothing else.
IsSentinelInWhitespace(out) ==
    \E i \in 1..Len(out) :
        /\ i + Len(UP_TO_DATE) - 1 <= Len(out)
        /\ SubSeq(out, i, i + Len(UP_TO_DATE) - 1) = UP_TO_DATE
        /\ \A k \in 1..(i - 1) : IsWhitespace(out[k])
        /\ \A k \in (i + Len(UP_TO_DATE))..Len(out) : IsWhitespace(out[k])

\* The descriptors whose pull ran, succeeded and was classified.
Classified ==
    {cmdLog[k].name : k \in {j \in 1..Len(cmdLog) :
        /\ cmdLog[j].cmd = "pull"
        /\ cmdLog[j].outcome = "success"
        /\ IsUtf8(pullReply[cmdLog[j].name])}}

UpdatedSet == {updated[k] : k \in 1..Len(updated)}

Runs(cmd, i) ==
    Cardinality({k \in 1..Len(cmdLog) : cmdLog[k].cmd = cmd /\ cmdLog[k].name = i})

Launching == pc \in {"run", "spawn", "wait", "exited"}

C9_SyncBuildsExactlyUpdated ==
    phase = "sync" =>
        /\ \A i \in Classified :
             i \notin UpdatedSet <=> IsSentinelInWhitespace(pullReply[i])
        /\ UpdatedSet \subseteq Classified
        /\ \A k \in 1..Len(cmdLog) :
             cmdLog[k].cmd \in {"install", "build"} => cmdLog[k].name \in UpdatedSet
        /\ Launching =>
             \A i \in Children :
                 /\ Runs("install", i) = IF i \in UpdatedSet THEN 1 ELSE 0
                 /\ Runs("build", i) = IF i \in UpdatedSet THEN 1 ELSE 0
        /\ (pc = "run" /\ UpdatedSet = {}) =>
             \A k \in 1..Len(cmdLog) : cmdLog[k].cmd = "pull"

C9_Witness ==
    /\ phase = "sync"
    /\ pc = "run"
    /\ pullReply[1] = <<" ", "\t">> \o UP_TO_DATE \o <<"\r", "\n">>
    /\ pullReply[2] = UP_TO_DATE \o <<"\n", "x">>
    /\ updated = <<2>>

(***************************************************************************)
(* C10: a clone, pull, install or build that does not return success is    *)
(* the last command the run invokes: the program has aborted and no child  *)
(* was spawned.                                                            *)
(***************************************************************************)
C10_FailedCommandAborts ==
    \A k \in 1..Len(cmdLog) :
        (cmdLog[k].cmd \in SetupCommands /\ cmdLog[k].outcome # "success") =>
            /\ k = Len(cmdLog)
            /\ pc = "aborted"
            /\ \A c \in Children : child[c] = "none" /\ tpc[c] = "none"

C10_Witness ==
    /\ pc = "aborted"
    /\ Len(cmdLog) = 4
    /\ cmdLog[4].cmd = "build"
    /\ cmdLog[4].outcome = "failure"
    /\ cmdLog[3].outcome = "success"

(***************************************************************************)
(* C11: when Initialize was selected and every command so far succeeded,   *)
(* the commands of the run are, in this order, one clone per descriptor,   *)
(* then install and build for every descriptor, then one start per         *)
(* descriptor; by the time main waits all of them have run and every child *)
(* is spawned.                                                             *)
(***************************************************************************)
InitializeCommands ==
    [i \in Children |-> [cmd |-> "clone", name |-> i]]
    \o Concat([i \in Children |->
                 <<[cmd |-> "install", name |-> i], [cmd |-> "build", name |-> i]>>])
    \o [i \in Children |-> [cmd |-> "start", name |-> i]]

AllSucceeded == \A k \in 1..Len(cmdLog) : cmdLog[k].outcome = "success"

Invoked == [k \in 1..Len(cmdLog) |-> [cmd |-> cmdLog[k].cmd, name |-> cmdLog[k].name]]

C11_InitializeClonesBuildsSpawnsAll ==
    (phase = "initialize" /\ AllSucceeded) =>
        /\ IsPrefix(Invoked, InitializeCommands)
        /\ pc \in {"install", "build"} => Len(cmdLog) >= Len(SUBSERVER_NAMES)
        /\ pc \in {"run", "spawn"} => Len(cmdLog) >= 3 * Len(SUBSERVER_NAMES)
        /\ pc \in {"wait", "exited"} =>
             /\ Invoked = InitializeCommands
             /\ \A c \in Children : child[c] # "none"

C11_Witness ==
    /\ phase = "initialize"
    /\ pc = "exited"
    /\ AllSucceeded
    /\ "other" \in root.entries

(***************************************************************************)
(* C12: the arguments a descriptor's child is started with hold the port   *)
(* option iff a port override is set and the descriptor is the backend;    *)
(* the option is "--" followed by "-p=" and the port in decimal.  The      *)
(* frontend never gets it, and without an override nobody does.            *)
(***************************************************************************)
IsPortOption(arg) == Len(arg) >= 3 /\ SubSeq(arg, 1, 3) = <<"-","p","=">>

HasPortOption(av) == \E k \in 1..Len(av) : IsPortOption(av[k])

Backend == CHOOSE c \in Children : SUBSERVER_NAMES[c] = "floormedia_backend"

PortSet == args.server_alternate_port # <<>>

C12_PortOptionOnlyForBackend ==
    \A c \in Children :
        child[c] # "none" =>
            /\ HasPortOption(childArgv[c]) <=> (PortSet /\ c = Backend)
            /\ IF PortSet /\ c = Backend
               THEN /\ Len(childArgv[c]) = 3
                    /\ childArgv[c][1] = START
                    /\ childArgv[c][2] = <<"-","-">>
                    /\ IsPortOption(childArgv[c][3])
                    /\ ParseU16(SubSeq(childArgv[c][3], 4, Len(childArgv[c][3])))
                         = args.server_alternate_port
               ELSE childArgv[c] = <<START>>

C12_Witness ==
    /\ \A c \in Children : child[c] # "none"
    /\ args.server_alternate_port = <<443>>
    /\ HasPortOption(childArgv[Backend])
    /\ ~HasPortOption(childArgv[1])

(***************************************************************************)
(* C16: the options of a command line are -m / inherit_stdouts, a port     *)
(* option with the argument after it, and unknown arguments.  The original *)
(* statement: every reordering of the options gives the same ParsedArgs,   *)
(* and dropping the unknown arguments changes nothing.                     *)
(***************************************************************************)
RECURSIVE OptionsOf(_)
OptionsOf(tokens) ==
    IF tokens = <<>> THEN <<>>
    ELSE IF Head(tokens) \in {BACKEND_PORT, OPT_BP} /\ Len(tokens) >= 2
         THEN <<SubSeq(tokens, 1, 2)>> \o OptionsOf(SubSeq(tokens, 3, Len(tokens)))
         ELSE <<SubSeq(tokens, 1, 1)>> \o OptionsOf(Tail(tokens))

ArgvOptions == OptionsOf(Tail(argv))

Reorderings(n) ==
    {f \in [1..n -> 1..n] : \A i, j \in 1..n : f[i] = f[j] => i = j}

Reordered(opts, f) == [i \in 1..Len(opts) |-> opts[f[i]]]

ParseOptions(opts) == ParsedArgsFrom(<<PROGRAM>> \o Concat(opts))

\* The ports of the port options whose value is a u16, in order.
ValidPorts(opts) ==
    LET ps == SelectSeq(opts, LAMBDA o : Len(o) = 2 /\ ParseU16(o[2]) # <<>>)
    IN  [i \in 1..Len(ps) |-> ParseU16(ps[i][2])[1]]

Range(f) == {f[i] : i \in DOMAIN f}

ArgsParsed == pc = "present"

C16_EveryReorderingSameConfig ==
    ArgsParsed =>
        /\ \A f \in Reorderings(Len(ArgvOptions)) :
               ParseOptions(Reordered(ArgvOptions, f)) = args
        /\ ParseOptions(SelectSeq(ArgvOptions, LAMBDA o : o # <<UNKNOWN>>)) = args

(***************************************************************************)
(* C16, amended: capture is off iff -m / inherit_stdouts occurs; the port  *)
(* is the value of the last port option whose value is a u16, none if      *)
(* there is no such option; every reordering of the options gives the      *)
(* same ParsedArgs when the valid port values are all equal; dropping the  *)
(* unknown arguments changes nothing.                                      *)
(***************************************************************************)
C16_ReorderingWithOnePortSameConfig ==
    ArgsParsed =>
        LET opts == ArgvOptions
            ports == ValidPorts(opts)
        IN  /\ args.distinguish_child_stdouts
                 <=> ~\E i \in 1..Len(opts) : opts[i] \in {<<OPT_M>>, <<INHERIT_STDOUTS>>}
            /\ args.server_alternate_port
                 = IF ports = <<>> THEN <<>> ELSE <<ports[Len(ports)]>>
            /\ Cardinality(Range(ports)) <= 1 =>
                 \A f \in Reorderings(Len(opts)) :
                     ParseOptions(Reordered(opts, f)) = args
            /\ ParseOptions(SelectSeq(opts, LAMBDA o : o # <<UNKNOWN>>)) = args

C16_Witness ==
    /\ ArgsParsed
    /\ ArgvOptions = << <<UNKNOWN>>, <<OPT_BP, <<"8","0">>>>, <<OPT_M>> >>
    /\ args = [distinguish_child_stdouts |-> FALSE, server_alternate_port |-> <<80>>]

(***************************************************************************)
(* C20: a call of Style::println does not panic: for every width and line  *)
(* length the padding width - line_len - 20 (Header), width - line_len -   *)
(* 16 (StatusInfo) is not negative.                                        *)
(***************************************************************************)
C20_BannerNeverAborts ==
    banner.style # "none" =>
        /\ banner.outcome = "printed"
        /\ Padding(banner.style, width, banner.line_len) >= 0

(***************************************************************************)
(* C13: a spawned child has a tagging thread iff capture is on; with       *)
(* capture off there is no tagging thread and the launcher writes no       *)
(* marker, tag or line for any child.                                      *)
(***************************************************************************)
C13_TaggerIffCapture ==
    \A c \in Children :
        /\ child[c] # "none" => (tpc[c] # "none" <=> capture)
        /\ child[c] = "none" => tpc[c] = "none"
        /\ ~capture => tpc[c] = "none" /\ sink[c] = <<>> /\ rpos[c] = 0

C13_Witness ==
    /\ ~capture
    /\ pc = "exited"
    /\ \E c \in Children : wpos[c] = Len(stream[c]) /\ NewlineCount(stream[c]) > 0
    /\ \A c \in Children : tpc[c] = "none" /\ sink[c] = <<>>

(***************************************************************************)
(* C14: a read error on a child's stream ends that child's tagging thread  *)
(* alone.  The step of the error changes nothing of main, of the children  *)
(* or of the other thread; after it the thread writes its end marker and   *)
(* nothing else; main does not abort while it waits; the other thread can  *)
(* still take its steps; and main still returns only after every child     *)
(* has terminated.                                                         *)
(***************************************************************************)
LastKind(s) == s[Len(s)].kind

C14_ReadErrorStopsOnlyItsTask ==
    [][ \A c \in Children :
          /\ (readErr'[c] /\ ~readErr[c]) =>
                /\ pc' = pc /\ idx' = idx /\ child' = child
                /\ \A d \in Children \ {c} :
                      tpc'[d] = tpc[d] /\ sink'[d] = sink[d] /\ line'[d] = line[d]
          /\ (readErr[c] /\ sink'[c] # sink[c]) => LastKind(sink'[c]) \in {"end", "crlf"}
          /\ readErr[c] => rpos'[c] = rpos[c]
          /\ (readErr[c] /\ pc = "wait") => pc' \in {"wait", "exited"}
          /\ (readErr[c] /\ pc' = "exited" /\ pc # "exited") =>
                \A d \in Children : child[d] = "exited"
      ]_vars

C14_Witness ==
    /\ pc = "exited"
    /\ readErr[1] /\ ~readErr[2]
    /\ NewlineCount(stream[1]) > 0 /\ LinePayloads(1) = <<>>
    /\ tpc[2] = "done"
    /\ LinePayloads(2) = CompleteLines(stream[2])
    /\ LinePayloads(2) # <<>>

(***************************************************************************)
(* C15: when main waits on a child, every descriptor's child has been      *)
(* spawned; and the spawn of a later child is enabled whatever the earlier *)
(* children do: main can call node_run for it while an earlier child runs  *)
(* without having written or terminated.                                   *)
(***************************************************************************)
C15_AllSpawnedBeforeAnyWait ==
    /\ pc \in {"wait", "exited"} => \A c \in Children : child[c] # "none"
    /\ pc = "spawn" =>
         /\ \A c \in Children : c < idx <=> child[c] # "none"
         /\ ENABLED NodeRun

C15_Witness ==
    /\ pc = "wait"
    /\ idx = 1
    /\ \A c \in Children : child[c] = "running"
    /\ Len(stream[1]) > 0
    /\ wpos[1] = 0

(***************************************************************************)
(* C17: whatever the children's exit statuses, main does not abort once    *)
(* both children are spawned, and when every child has terminated main     *)
(* can go on to return: the statuses are not looked at.                    *)
(***************************************************************************)
AllSpawned == \A c \in Children : child[c] # "none"

C17_ChildStatusNotPropagated ==
    AllSpawned =>
        /\ pc \in {"wait", "exited"}
        /\ (pc = "wait" /\ \A c \in Children : child[c] = "exited") =>
              ENABLED (ChildWait \/ MainReturn)

C17_Witness ==
    /\ pc = "exited"
    /\ \A c \in Children : child[c] = "exited" /\ exitCode[c] = 1

(***************************************************************************)
(* C18: in the Sync phase an install or build is run only after the pull   *)
(* of every descriptor has run and succeeded; so when a pull fails, no     *)
(* descriptor is built, not even one that an earlier pull updated.         *)
(***************************************************************************)
C18_AllPullsBeforeAnyBuild ==
    phase = "sync" =>
        /\ \A k \in 1..Len(cmdLog) :
              cmdLog[k].cmd \in {"install", "build"} =>
                  \A c \in Children :
                      \E j \in 1..(k - 1) :
                          /\ cmdLog[j].cmd = "pull"
                          /\ cmdLog[j].name = c
                          /\ cmdLog[j].outcome = "success"
        /\ (\E j \in 1..Len(cmdLog) :
                cmdLog[j].cmd = "pull" /\ cmdLog[j].outcome # "success") =>
              /\ pc = "aborted"
              /\ \A k \in 1..Len(cmdLog) : cmdLog[k].cmd = "pull"

C18_Witness ==
    /\ phase = "sync"
    /\ pc = "aborted"
    /\ updated = <<1>>
    /\ Len(cmdLog) = 2
    /\ cmdLog[2] = [cmd |-> "pull", name |-> 2, outcome |-> "failure"]

(***************************************************************************)
(* C19: with capture on and a pipe of bounded capacity, under fair         *)
(* scheduling of main, the children and the tagging threads, once every    *)
(* child is spawned every child terminates and main returns, whatever the  *)
(* children write and whichever of them finishes first: a child that       *)
(* fills its pipe is drained by its tagging thread while main waits on     *)
(* another child.                                                          *)
(***************************************************************************)
C19_EveryChildTerminatesAndProgramExits ==
    AllSpawned ~> (pc = "exited" /\ \A c \in Children : child[c] = "exited")

C19_Witness ==
    /\ pc = "exited"
    /\ capture
    /\ \A c \in Children : child[c] = "exited"
    /\ Len(stream[2]) > PipeCap
    /\ wpos[2] = Len(stream[2])
    /\ ~readErr[2]

=============================================================================
